---------------------------- MODULE Spec2Model ----------------------------
(***************************************************************************)
(* A model of tomatoslicer's interval algebra (src/tomatoslicer/time.py    *)
(* and src/tomatoslicer/shortcuts.py).                                     *)
(*                                                                         *)
(* Time.  An instant is an integer count of ticks since 2020-01-01 00:00   *)
(* UTC; one tick stands for timedelta(microseconds=1), the smallest step   *)
(* of a datetime.  A calendar day holds TicksPerDay ticks: tick 0 of a day *)
(* is time.min and tick TicksPerDay - 1 is time.max.  TimeSlice stores     *)
(* _start and _end normalised to UTC, and every comparison of the code is  *)
(* made on those, so the model keeps the UTC instants only.  The display   *)
(* zone is a fixed-offset zone (pytz.utc): its dst() is zero, so           *)
(* spans_dst_start and spans_dst_end are false.                            *)
(*                                                                         *)
(* A TimeSlice is a record [start, end]; a TimeLine is a sequence of them  *)
(* (time_slices) and a flag (reverse).  A Python exception is the value    *)
(* ValueError or AttributeError in the place of the result; None, the      *)
(* exceptions and the slices are records with different fields, so that    *)
(* any two of them can be compared.                                        *)
(***************************************************************************)
EXTENDS Integers, Sequences, FiniteSets, TLC

VARIABLES
    start, end, raised,                 \* a TimeSlice under mutation
    iself, interval, current, yielded, ipc,   \* one run of TimeSlice.iter
    ps, ph, parts, ppc,                 \* one call of TimeSlice.punch_hole
    time_slices, reverse, op, pre, ret, \* a TimeLine and its last call
    rebuilt,                            \* the pieces and the hole, flattened
    rduration, rstep, rmode, rresult, rpc,    \* one call of the rounding
    cself, cother, cresult, cpc         \* one call of before / after

sliceVars == <<start, end, raised>>
iterVars  == <<iself, interval, current, yielded, ipc>>
punchVars == <<ps, ph, parts, ppc>>
lineVars  == <<time_slices, reverse, op, pre, ret>>
roundVars == <<rduration, rstep, rmode, rresult, rpc>>
compareVars == <<cself, cother, cresult, cpc>>
restVars == <<rebuilt, roundVars, compareVars>>
vars == <<sliceVars, iterVars, punchVars, lineVars, restVars>>

(***************************************************************************)
(* Bounds.                                                                 *)
(***************************************************************************)
TicksPerDay == 2    \* ticks in a calendar day
WindowDays  == 7    \* days a mutated TimeSlice may range over
MaxShift    == 2    \* longest shift_left / shift_right, in ticks

\* Python's None, and the two exceptions the modelled code can end in
None == [none |-> TRUE]
ValueError == [error |-> "ValueError"]
AttributeError == [error |-> "AttributeError"]

LEFT_EDGE == "left"
RIGHT_EDGE == "right"
ALIGN_DAY == "day"
ALIGN_WEEK == "week"
ALIGN_MONTH == "month"
ALIGN_YEAR == "year"

Min(a, b) == IF a <= b THEN a ELSE b
Max(a, b) == IF a >= b THEN a ELSE b

(***************************************************************************)
(* The civil calendar (datetime.date, calendar.monthrange).  A date is its *)
(* day number: 0 is 2020-01-01, a Wednesday.                               *)
(***************************************************************************)
IsLeap(y) == (y % 4 = 0) /\ ((y % 100 # 0) \/ (y % 400 = 0))

DaysInMonth(y, m) ==
    IF m = 2 THEN (IF IsLeap(y) THEN 29 ELSE 28)
    ELSE IF m \in {4, 6, 9, 11} THEN 30 ELSE 31

YearLen(y) == IF IsLeap(y) THEN 366 ELSE 365

RECURSIVE DaysBeforeYear(_)
DaysBeforeYear(y) == IF y <= 2020 THEN 0 ELSE DaysBeforeYear(y - 1) + YearLen(y - 1)

RECURSIVE DaysBeforeMonth(_, _)
DaysBeforeMonth(y, m) ==
    IF m <= 1 THEN 0 ELSE DaysBeforeMonth(y, m - 1) + DaysInMonth(y, m - 1)

\* date(y, m, d) as a day number
ToOrdinal(y, m, d) == DaysBeforeYear(y) + DaysBeforeMonth(y, m) + d - 1

RECURSIVE YearFrom(_, _)
YearFrom(y, n) == IF n < YearLen(y) THEN y ELSE YearFrom(y + 1, n - YearLen(y))

RECURSIVE MonthFrom(_, _, _)
MonthFrom(y, m, n) ==
    IF n < DaysInMonth(y, m) THEN m ELSE MonthFrom(y, m + 1, n - DaysInMonth(y, m))

\* the fields of the date with day number n
YearOf(n)  == YearFrom(2020, n)
MonthOf(n) == MonthFrom(YearOf(n), 1, n - DaysBeforeYear(YearOf(n)))
DayOfMonth(n) == n - ToOrdinal(YearOf(n), MonthOf(n), 1) + 1

\* date.isoweekday(): 1 = Monday ... 7 = Sunday
IsoWeekday(n) == ((n + 2) % 7) + 1

\* datetime.date() and the time of day of an instant; datetime.combine
DateOf(t) == t \div TicksPerDay
TickOf(t) == t % TicksPerDay
Combine(n, tick) == n * TicksPerDay + tick
TimeMin == 0
TimeMax == TicksPerDay - 1

(***************************************************************************)
(* shortcuts.align_to: the left or right boundary of the day, week, month  *)
(* or year that holds the instant.                                         *)
(***************************************************************************)
AlignTo(value, edge, mode) ==
    LET n == DateOf(value)
        new_date ==
            IF mode = ALIGN_DAY THEN n
            ELSE IF mode = ALIGN_WEEK THEN
                (IF edge = LEFT_EDGE THEN n - (IsoWeekday(n) - 1)
                 ELSE n + (7 - IsoWeekday(n)))
            ELSE IF mode = ALIGN_MONTH THEN
                (IF edge = LEFT_EDGE THEN ToOrdinal(YearOf(n), MonthOf(n), 1)
                 ELSE ToOrdinal(YearOf(n), MonthOf(n), DaysInMonth(YearOf(n), MonthOf(n))))
            ELSE
                (IF edge = LEFT_EDGE THEN ToOrdinal(YearOf(n), 1, 1)
                 ELSE ToOrdinal(YearOf(n), 12, 31))
    IN  IF edge = LEFT_EDGE THEN Combine(new_date, TimeMin)
        ELSE Combine(new_date, TimeMax)

Edges == {LEFT_EDGE, RIGHT_EDGE}
Modes == {ALIGN_DAY, ALIGN_WEEK, ALIGN_MONTH, ALIGN_YEAR}

(***************************************************************************)
(* TimeSlice under mutation: the setters, the shifts and the align_* calls *)
(* on one object.  raised tells whether the last call ended in ValueError. *)
(***************************************************************************)
\* the ISO week from Monday 2020-12-28: it holds a month's and a year's end
WindowFirst == Combine(ToOrdinal(2020, 12, 28), TimeMin)
WindowLast  == WindowFirst + WindowDays * TicksPerDay - 1
Window == WindowFirst .. WindowLast

\* TimeSlice.__init__: a slice is constructed only with start <= end
SliceInit ==
    /\ start \in Window
    /\ end \in Window
    /\ start <= end
    /\ raised = FALSE

\* the start setter: the assignment comes first, the check after it
SetStartValue(value) ==
    /\ start' = value
    /\ raised' = (value > end)
    /\ end' = end

\* the end setter
SetEndValue(value) ==
    /\ end' = value
    /\ raised' = (start > value)
    /\ start' = start

notSlice == <<iterVars, punchVars, lineVars, restVars>>

SetStart ==
    /\ \E value \in Window : SetStartValue(value)
    /\ UNCHANGED notSlice

SetEnd ==
    /\ \E value \in Window : SetEndValue(value)
    /\ UNCHANGED notSlice

ShiftLeft ==
    /\ \E duration \in 1 .. MaxShift :
        /\ start - duration \in Window
        /\ end - duration \in Window
        /\ start' = start - duration
        /\ end' = end - duration
        /\ raised' = FALSE
    /\ UNCHANGED notSlice

ShiftRight ==
    /\ \E duration \in 1 .. MaxShift :
        /\ end + duration \in Window
        /\ start + duration \in Window
        /\ end' = end + duration
        /\ start' = start + duration
        /\ raised' = FALSE
    /\ UNCHANGED notSlice

\* align_start_to_day / _week / _month / _year
AlignStart ==
    /\ \E mode \in Modes, edge \in Edges :
        /\ AlignTo(start, edge, mode) \in Window
        /\ SetStartValue(AlignTo(start, edge, mode))
    /\ UNCHANGED notSlice

\* align_end_to_day / _week / _month / _year
AlignEnd ==
    /\ \E mode \in Modes, edge \in Edges :
        /\ AlignTo(end, edge, mode) \in Window
        /\ SetEndValue(AlignTo(end, edge, mode))
    /\ UNCHANGED notSlice

\* align_to_day / _week / _month / _year: the start, then (unless that
\* raised) the end
AlignBoth ==
    /\ \E mode \in Modes, start_edge \in Edges, end_edge \in Edges :
        LET s == AlignTo(start, start_edge, mode)
            e == AlignTo(end, end_edge, mode)
        IN  /\ s \in Window
            /\ e \in Window
            /\ start' = s
            /\ IF s > end
               THEN end' = end /\ raised' = TRUE
               ELSE end' = e /\ raised' = (s > e)
    /\ UNCHANGED notSlice

SliceNext ==
    \/ SetStart
    \/ SetEnd
    \/ ShiftLeft
    \/ ShiftRight
    \/ AlignStart
    \/ AlignEnd
    \/ AlignBoth

(***************************************************************************)
(* TimeSlice values and their predicates.                                  *)
(***************************************************************************)
\* TimeSlice(start, end=end): None stands for the ValueError of __init__
NewTimeSlice(s, e) == IF s > e THEN None ELSE [start |-> s, end |-> e]

\* TimeSlice.occluded_by
OccludedBy(self, other) ==
    /\ other.start <= self.start /\ self.start <= other.end
    /\ other.start <= self.end /\ self.end <= other.end

\* TimeSlice.overlaps with a datetime
OverlapsInstant(self, comparison) ==
    self.start <= comparison /\ comparison <= self.end

\* TimeSlice.overlaps with a TimeSlice
Overlaps(self, other) ==
    \/ other.start <= self.start /\ self.start <= other.end
    \/ other.start <= self.end /\ self.end <= other.end
    \/ self.start <= other.start /\ other.start <= self.end
    \/ self.start <= other.end /\ other.end <= self.end

(***************************************************************************)
(* relativedelta: an interval is [years, months, days].  Added to an       *)
(* instant it moves the month and year first, clamps the day of the month  *)
(* to the length of the month reached, then adds the days; the time of day *)
(* is kept.                                                                *)
(***************************************************************************)
AddDelta(t, delta) ==
    LET n  == DateOf(t)
        mm == (MonthOf(n) - 1) + delta.months
        y  == YearOf(n) + delta.years + (mm \div 12)
        m  == (mm % 12) + 1
        d  == Min(DayOfMonth(n), DaysInMonth(y, m))
    IN  Combine(ToOrdinal(y, m, d) + delta.days, TickOf(t))

\* TimeSlice.__add__
SliceAdd(self, other) ==
    NewTimeSlice(AddDelta(self.start, other), AddDelta(self.end, other))

Days(step)   == [years |-> 0, months |-> 0, days |-> step]
Weeks(step)  == [years |-> 0, months |-> 0, days |-> 7 * step]
Months(step) == [years |-> 0, months |-> step, days |-> 0]
Years(step)  == [years |-> step, months |-> 0, days |-> 0]

(***************************************************************************)
(* TimeSlice.iter as a generator: each step is one turn of its loop.       *)
(***************************************************************************)
MaxSpanDays == 95   \* longest iterated slice, in days
MaxStep     == 2    \* largest step of iter_days / _weeks / _months / _years

\* the first days of the iterated slices
IterStartDays ==
    { ToOrdinal(2021, 1, 1), ToOrdinal(2021, 1, 31),
      ToOrdinal(2020, 1, 30), ToOrdinal(2020, 11, 15) }

IterSlices ==
    { [start |-> Combine(n, TimeMin), end |-> Combine(n + k, tick)] :
        n \in IterStartDays, k \in 0 .. MaxSpanDays, tick \in {TimeMin, TimeMax} }

\* iter_days, iter_weeks, iter_months, iter_years
Intervals ==
    UNION { {Days(step), Weeks(step), Months(step), Years(step)} : step \in 1 .. MaxStep }

IterInit ==
    /\ iself \in IterSlices
    /\ interval \in Intervals
    /\ current = NewTimeSlice(iself.start, AddDelta(iself.start, interval))
    /\ yielded = <<>>
    /\ ipc = "loop"

notIter == <<sliceVars, punchVars, lineVars, restVars>>

\* the loop test of iter
IterContinues(cur, self) == cur.end - 1 <= self.end

\* one turn: yield the current sub-slice and advance the cursor
IterYield ==
    /\ ipc = "loop"
    /\ IterContinues(current, iself)
    /\ yielded' = Append(yielded, NewTimeSlice(current.start, current.end - 1))
    /\ current' = SliceAdd(current, interval)
    /\ UNCHANGED <<iself, interval, ipc>>
    /\ UNCHANGED notIter

\* the loop test fails: the generator is exhausted
IterStop ==
    /\ ipc = "loop"
    /\ ~IterContinues(current, iself)
    /\ ipc' = "done"
    /\ UNCHANGED <<iself, interval, current, yielded>>
    /\ UNCHANGED notIter

IterNext ==
    \/ IterYield
    \/ IterStop

(***************************************************************************)
(* TimeSlice.split, punch_hole and merge.                                  *)
(***************************************************************************)
\* SliceSplit with the left piece ending at the split time itself
SliceSplit_NoGap(self, split_time) ==
    IF ~OverlapsInstant(self, split_time) THEN ValueError
    ELSE [left  |-> NewTimeSlice(self.start, split_time),
          right |-> NewTimeSlice(split_time, self.end)]

\* TimeSlice.split: ValueError, or the pair of pieces (left may be None)
SliceSplit(self, split_time) ==
    IF ~OverlapsInstant(self, split_time) THEN ValueError
    ELSE [left  |-> NewTimeSlice(self.start, split_time - 1),
          right |-> NewTimeSlice(split_time, self.end)]

\* PunchHole without the part right of the hole
PunchHole_NoRightPart(self, other) ==
    IF OccludedBy(self, other) THEN <<>>
    ELSE IF ~Overlaps(self, other) THEN <<self>>
    ELSE LET first == SliceSplit(self, other.start)
         IN  IF first # ValueError /\ first.left # None
             THEN <<first.left>> ELSE <<>>

\* TimeSlice.punch_hole: the list of pieces
PunchHole(self, other) ==
    IF OccludedBy(self, other) THEN <<>>
    ELSE IF ~Overlaps(self, other) THEN <<self>>
    ELSE LET first  == SliceSplit(self, other.start)
             second == SliceSplit(self, other.end)
             left_parts ==
                 IF first # ValueError /\ first.left # None
                 THEN <<first.left>> ELSE <<>>
             right_parts ==
                 IF second # ValueError THEN <<second.right>> ELSE <<>>
         IN  left_parts \o right_parts

\* Merge taking the other slice's end, not the later of the two ends
Merge_KeepsOtherEnd(self, other) ==
    IF Overlaps(self, other)
    THEN NewTimeSlice(Min(self.start, other.start), other.end)
    ELSE ValueError

\* TimeSlice.merge
Merge(self, other) ==
    IF Overlaps(self, other)
    THEN NewTimeSlice(Min(self.start, other.start), Max(self.end, other.end))
    ELSE ValueError

(***************************************************************************)
(* One call of TimeSlice.punch_hole, on slices over a few instants.        *)
(***************************************************************************)
MaxPunchInstant == 4    \* instants of the punched slices are 0 .. this

PunchInstants == 0 .. MaxPunchInstant
PunchSlices ==
    { s \in [start : PunchInstants, end : PunchInstants] : s.start <= s.end }

PunchInit ==
    /\ ps \in PunchSlices
    /\ ph \in PunchSlices
    /\ parts = <<>>
    /\ ppc = "call"

notPunch == <<sliceVars, iterVars, lineVars, restVars>>

\* parts = ps.punch_hole(ph)
CallPunchHole ==
    /\ ppc = "call"
    /\ parts' = PunchHole(ps, ph)
    /\ ppc' = "done"
    /\ UNCHANGED <<ps, ph>>
    /\ UNCHANGED notPunch

PunchNext ==
    CallPunchHole

(***************************************************************************)
(* TimeLine: a record [time_slices, reverse].                              *)
(***************************************************************************)
\* the sort key x.range = (start, end), compared as Python compares tuples
RangeLess(a, b) == a.start < b.start \/ (a.start = b.start /\ a.end < b.end)

RECURSIVE InsertSorted(_, _, _)
InsertSorted(x, seq, rev) ==
    IF seq = <<>> THEN <<x>>
    ELSE IF (IF rev THEN RangeLess(Head(seq), x) ELSE RangeLess(x, Head(seq)))
         THEN <<x>> \o seq
         ELSE <<Head(seq)>> \o InsertSorted(x, Tail(seq), rev)

\* list.sort(key=range, reverse=rev)
RECURSIVE SortSlices(_, _)
SortSlices(seq, rev) ==
    IF seq = <<>> THEN <<>>
    ELSE InsertSorted(seq[Len(seq)], SortSlices(SubSeq(seq, 1, Len(seq) - 1), rev), rev)

\* an optional argument is <<>> (absent) or <<value>>
RevArgs == {<<>>, <<TRUE>>, <<FALSE>>}
NewReverse(rev, arg) == IF arg = <<>> THEN rev ELSE arg[1]

RECURSIVE MinStart(_)
MinStart(seq) ==
    IF Len(seq) = 1 THEN seq[1].start ELSE Min(seq[1].start, MinStart(Tail(seq)))

RECURSIVE MaxEnd(_)
MaxEnd(seq) ==
    IF Len(seq) = 1 THEN seq[1].end ELSE Max(seq[1].end, MaxEnd(Tail(seq)))

\* TimeLine.outer_time_slice
OuterTimeSlice(seq) ==
    IF seq = <<>> THEN None ELSE NewTimeSlice(MinStart(seq), MaxEnd(seq))

\* TimeLine.overlaps
LineOverlaps(seq, other) ==
    \E i \in DOMAIN seq : Overlaps(seq[i], other)

\* the loop of merge_overlap: stack is sorted descending and popped from its
\* end, so the slices come in ascending order
RECURSIVE MergeLoop(_, _, _)
MergeLoop(stack, current_slice, merged_time_slices) ==
    IF stack = <<>> THEN Append(merged_time_slices, current_slice)
    ELSE LET next_time_slice == stack[Len(stack)]
             rest == SubSeq(stack, 1, Len(stack) - 1)
             m == Merge(current_slice, next_time_slice)
         IN  IF m # ValueError
             THEN MergeLoop(rest, m, merged_time_slices)
             ELSE MergeLoop(rest, next_time_slice,
                            Append(merged_time_slices, current_slice))

\* TimeLine.merge_overlap: the new time_slices
MergeOverlap(seq, rev) ==
    IF seq = <<>> THEN seq
    ELSE LET stack == SortSlices(seq, TRUE)
         IN  SortSlices(MergeLoop(SubSeq(stack, 1, Len(stack) - 1),
                                  stack[Len(stack)], <<>>), rev)

\* TimeLine.flatten(reverse=arg): the new time_slices
FlattenSlices(seq, rev, arg) ==
    MergeOverlap(SortSlices(seq, NewReverse(rev, arg)), NewReverse(rev, arg))

\* SplitLoop sending a slice that ends at the split time wholly to the left
RECURSIVE SplitLoop_EndInclusive(_, _, _, _)
SplitLoop_EndInclusive(seq, split_time, left, right) ==
    IF seq = <<>> THEN [left |-> left, right |-> right]
    ELSE LET time_slice == Head(seq)
         IN  IF time_slice.end <= split_time
             THEN SplitLoop_EndInclusive(Tail(seq), split_time,
                                         Append(left, time_slice), right)
             ELSE IF OverlapsInstant(time_slice, split_time)
             THEN LET pieces == SliceSplit(time_slice, split_time)
                  IN  SplitLoop_EndInclusive(Tail(seq), split_time,
                          IF pieces.left # None
                          THEN Append(left, pieces.left) ELSE left,
                          Append(right, pieces.right))
             ELSE SplitLoop_EndInclusive(Tail(seq), split_time, left,
                                         Append(right, time_slice))

\* the loop of TimeLine.split over the ascending slices: [left, right]
RECURSIVE SplitLoop(_, _, _, _)
SplitLoop(seq, split_time, left, right) ==
    IF seq = <<>> THEN [left |-> left, right |-> right]
    ELSE LET time_slice == Head(seq)
         IN  IF time_slice.end < split_time
             THEN SplitLoop(Tail(seq), split_time, Append(left, time_slice), right)
             ELSE IF OverlapsInstant(time_slice, split_time)
             THEN LET pieces == SliceSplit(time_slice, split_time)
                  IN  SplitLoop(Tail(seq), split_time,
                                IF pieces.left # None
                                THEN Append(left, pieces.left) ELSE left,
                                Append(right, pieces.right))
             ELSE SplitLoop(Tail(seq), split_time, left, Append(right, time_slice))

TimeLine(seq, rev) == [time_slices |-> seq, reverse |-> rev]

\* TimeLine.split: [self: the time_slices the call leaves in the timeline,
\* ret: the list returned, or AttributeError for an empty timeline]
LineSplit(seq, rev, split_time) ==
    IF OuterTimeSlice(seq) = None
    THEN [self |-> seq, ret |-> AttributeError]
    ELSE IF OverlapsInstant(OuterTimeSlice(seq), split_time)
    THEN LET halves == SplitLoop(SortSlices(seq, FALSE), split_time, <<>>, <<>>)
         IN  [self |-> SortSlices(seq, rev),
              ret  |-> << TimeLine(SortSlices(halves.left, rev), rev),
                          TimeLine(SortSlices(halves.right, rev), rev) >>]
    ELSE [self |-> seq, ret |-> << TimeLine(seq, rev) >>]

\* the loops of TimeLine.crop over the parts of a split: the last part that
\* overlaps the bound (no break), and the first one (break)
RECURSIVE LastOverlapping(_, _, _)
LastOverlapping(list, bound, kept_part) ==
    IF list = <<>> THEN kept_part
    ELSE LastOverlapping(Tail(list), bound,
                         IF LineOverlaps(Head(list).time_slices, bound)
                         THEN Head(list) ELSE kept_part)

RECURSIVE FirstOverlapping(_, _, _)
FirstOverlapping(list, bound, kept_part) ==
    IF list = <<>> THEN kept_part
    ELSE IF LineOverlaps(Head(list).time_slices, bound) THEN Head(list)
    ELSE FirstOverlapping(Tail(list), bound, kept_part)

\* TimeLine.crop: [self: the time_slices the call leaves in the timeline,
\* ret: the timeline returned, or the exception raised].  bound is a slice,
\* or None (the outer_time_slice of an empty timeline).
LineCrop(seq, rev, bound) ==
    IF bound = None \/ seq = <<>> THEN [self |-> seq, ret |-> ValueError]
    ELSE IF ~Overlaps(OuterTimeSlice(seq), bound)
    THEN [self |-> seq, ret |-> ValueError]
    ELSE LET first == LineSplit(seq, rev, bound.start)
             kept_part == LastOverlapping(first.ret, bound, None)
         IN  IF kept_part = None
             THEN [self |-> first.self, ret |-> AttributeError]  \* None.split
             ELSE LET second == LineSplit(kept_part.time_slices,
                                          kept_part.reverse, bound.end)
                  IN  [self |-> first.self,
                       ret  |-> FirstOverlapping(second.ret, bound,
                                    TimeLine(second.self, kept_part.reverse))]

(***************************************************************************)
(* A TimeLine and the calls made on it.  op names the last call and its    *)
(* argument, pre is the timeline as that call found it, ret is what the    *)
(* call returned or raised.                                                *)
(***************************************************************************)
MaxInstant == 2     \* instants of a timeline's slices are 0 .. MaxInstant
MaxSlices  == 3     \* most slices in a timeline

\* the loop of TimeLine.punch_hole over the ascending slices
RECURSIVE PunchLoop(_, _, _)
PunchLoop(seq, hole, punched_time_slices) ==
    IF seq = <<>> THEN punched_time_slices
    ELSE LET time_slice == Head(seq)
         IN  IF Overlaps(hole, time_slice)
             THEN PunchLoop(Tail(seq), hole,
                            punched_time_slices \o PunchHole(time_slice, hole))
             ELSE PunchLoop(Tail(seq), hole,
                            Append(punched_time_slices, time_slice))

\* LinePunchHole leaving the slices in the ascending order of its scan
LinePunchHole_Ascending(seq, rev, hole) ==
    PunchLoop(SortSlices(seq, FALSE), hole, <<>>)

\* TimeLine.punch_hole: the new time_slices; reverse is set to False for
\* the scan and back to rev by the closing sort
LinePunchHole(seq, rev, hole) ==
    SortSlices(PunchLoop(SortSlices(seq, FALSE), hole, <<>>), rev)

Instants == 0 .. MaxInstant
Slices == { s \in [start : Instants, end : Instants] : s.start <= s.end }

\* TimeLine(reverse=...)
LineInit ==
    /\ time_slices = <<>>
    /\ reverse \in BOOLEAN
    /\ op = [name |-> "init", arg |-> None]
    /\ pre = None
    /\ ret = None

notLine == <<sliceVars, iterVars, punchVars, restVars>>

\* TimeLine.append
LineAppend ==
    /\ \E time_slice \in Slices :
        /\ Len(time_slices) < MaxSlices
        /\ time_slices' = Append(time_slices, time_slice)
        /\ op' = [name |-> "append", arg |-> None]
        /\ pre' = None
        /\ ret' = None
        /\ UNCHANGED reverse
    /\ UNCHANGED notLine

\* TimeLine.sort
LineSort ==
    /\ \E arg \in RevArgs :
        /\ reverse' = NewReverse(reverse, arg)
        /\ time_slices' = SortSlices(time_slices, NewReverse(reverse, arg))
        /\ op' = [name |-> "sort", arg |-> None]
        /\ pre' = None
        /\ ret' = None
    /\ UNCHANGED notLine

\* TimeLine.flatten
LineFlatten ==
    /\ \E arg \in RevArgs :
        /\ reverse' = NewReverse(reverse, arg)
        /\ time_slices' = FlattenSlices(time_slices, reverse, arg)
        /\ op' = [name |-> "flatten", arg |-> arg]
        /\ pre' = TimeLine(time_slices, reverse)
        /\ ret' = None
    /\ UNCHANGED notLine

\* TimeLine.split
CallLineSplit ==
    /\ \E split_time \in Instants :
        LET r == LineSplit(time_slices, reverse, split_time)
        IN  /\ time_slices' = r.self
            /\ ret' = r.ret
            /\ op' = [name |-> "split", arg |-> split_time]
            /\ pre' = TimeLine(time_slices, reverse)
            /\ UNCHANGED reverse
    /\ UNCHANGED notLine

\* TimeLine.crop
CallLineCrop ==
    /\ \E bound \in Slices \cup {None} :
        LET r == LineCrop(time_slices, reverse, bound)
        IN  /\ time_slices' = r.self
            /\ ret' = r.ret
            /\ op' = [name |-> "crop", arg |-> bound]
            /\ pre' = TimeLine(time_slices, reverse)
            /\ UNCHANGED reverse
    /\ UNCHANGED notLine

\* TimeLine.punch_hole; punch_holes is a run of these calls, one per hole
CallLinePunchHole ==
    /\ \E hole \in Slices :
        /\ time_slices' = LinePunchHole(time_slices, reverse, hole)
        /\ op' = [name |-> "punch_hole", arg |-> hole]
        /\ pre' = TimeLine(time_slices, reverse)
        /\ ret' = None
        /\ UNCHANGED reverse
    /\ UNCHANGED notLine

\* a timeline that is appended to, sorted, flattened and split
LineNext ==
    \/ LineAppend
    \/ LineSort
    \/ LineFlatten
    \/ CallLineSplit

\* a timeline that is appended to, sorted and cropped
CropNext ==
    \/ LineAppend
    \/ LineSort
    \/ CallLineCrop

\* a timeline that is appended to, sorted and punched
HoleNext ==
    \/ LineAppend
    \/ LineSort
    \/ CallLinePunchHole

(***************************************************************************)
(* The pieces of a punched slice and the hole, put into one TimeLine that  *)
(* is then flattened.                                                      *)
(***************************************************************************)
\* rebuilt = TimeLine(parts + [ph], reverse=rev), after flatten(reverse=arg)
RebuildFlatten ==
    /\ ppc = "done"
    /\ \E rev \in BOOLEAN, arg \in RevArgs :
          rebuilt' = TimeLine(
              FlattenSlices(SortSlices(parts \o <<ph>>, rev), rev, arg),
              NewReverse(rev, arg))
    /\ ppc' = "rebuilt"
    /\ UNCHANGED <<ps, ph, parts>>
    /\ UNCHANGED <<sliceVars, iterVars, lineVars, roundVars, compareVars>>

RebuildNext ==
    \/ CallPunchHole
    \/ RebuildFlatten

(***************************************************************************)
(* shortcuts.duration_to_unit_hours and duration_to_rounded_unit_hours.    *)
(* A duration is a whole number of seconds, not negative (a TimeSlice's    *)
(* duration).  Unit hours are Decimals rounded to decimal_places = 2, the  *)
(* default of TimeSlice: the model counts them in hundredths of an hour.   *)
(* A rounding step is a Decimal counted in hundredths too, one whose       *)
(* reciprocal Decimal('1.0') / rounding_step is exact.  An optional        *)
(* argument is <<>> (None) or <<value>>.                                   *)
(***************************************************************************)
SecondsPerHour == 3600
decimal_places == 2     \* the default of TimeSlice
Scale == 10 ^ decimal_places    \* unit hours are counted in hundredths

ROUNDING_MODE_FLOOR == "floor"
ROUNDING_MODE_CEILING == "ceiling"
ROUNDING_MODE_STANDARD == "standard"

\* round() of the Decimal n / d (n >= 0, d > 0) to an integer: a Decimal
\* rounds half to even
RoundDecimal(n, d) ==
    LET q == n \div d
        r == n % d
    IN  IF 2 * r < d THEN q
        ELSE IF 2 * r > d THEN q + 1
        ELSE IF q % 2 = 0 THEN q ELSE q + 1

\* duration_to_unit_hours(duration, decimal_places=2), in hundredths
DurationToUnitHours(duration) == RoundDecimal(duration * Scale, SecondsPerHour)

\* duration_to_rounded_unit_hours: [value: hundredths] or ValueError
DurationToRoundedUnitHours(duration, rounding_step, rounding_mode) ==
    LET unit_hours == DurationToUnitHours(duration)
    IN  IF rounding_step = <<>> \/ rounding_mode = <<>>
        THEN [value |-> unit_hours]
        ELSE LET step == rounding_step[1]
                 remainder == unit_hours % step
             IN  IF rounding_mode[1] = ROUNDING_MODE_FLOOR
                 THEN [value |-> IF remainder = 0 THEN unit_hours
                                 ELSE unit_hours - remainder]
                 ELSE IF rounding_mode[1] = ROUNDING_MODE_CEILING
                 THEN [value |-> IF remainder = 0 THEN unit_hours
                                 ELSE unit_hours + (step - remainder)]
                 ELSE IF rounding_mode[1] = ROUNDING_MODE_STANDARD
                 THEN [value |-> RoundDecimal(unit_hours, step) * step]
                 ELSE ValueError

MaxSeconds == 1800      \* longest rounded duration, in seconds

\* rounding steps 0.1, 0.2, 0.25, 0.5 and 1 hour, or none
RoundingSteps == { <<>>, <<10>>, <<20>>, <<25>>, <<50>>, <<100>> }
RoundingModes == { <<>>, <<ROUNDING_MODE_FLOOR>>, <<ROUNDING_MODE_CEILING>>,
                   <<ROUNDING_MODE_STANDARD>>, <<"other">> }

RoundInit ==
    /\ rduration \in 0 .. MaxSeconds
    /\ rstep \in RoundingSteps
    /\ rmode \in RoundingModes
    /\ rresult = None
    /\ rpc = "call"

\* rresult = duration_to_rounded_unit_hours(rduration, 2, rstep, rmode)
CallRounded ==
    /\ rpc = "call"
    /\ rresult' = DurationToRoundedUnitHours(rduration, rstep, rmode)
    /\ rpc' = "done"
    /\ UNCHANGED <<rduration, rstep, rmode>>
    /\ UNCHANGED <<sliceVars, iterVars, punchVars, lineVars, rebuilt, compareVars>>

RoundNext ==
    CallRounded

(***************************************************************************)
(* TimeSlice.before and TimeSlice.after.  The argument is a datetime or a  *)
(* TimeSlice: [kind, value].  The result is [value: a Boolean], or         *)
(* ValueError when the call raises.                                        *)
(***************************************************************************)
\* shortcuts.localize(value, timezone.utc) on a stored instant, which is
\* aware already: the instant itself, or ValueError as TimeSlice.overlaps
\* expects of it
Localize(value) == { [value |-> value], ValueError }

\* TimeSlice.before, with localized the outcome of its call of localize
Before(self, other, localized) ==
    IF other.kind = "datetime"
    THEN IF localized = ValueError THEN ValueError
         ELSE [value |-> self.end <= localized.value]
    ELSE [value |-> self.end <= other.value.start]

\* TimeSlice.after
After(self, other) ==
    IF other.kind = "datetime"
    THEN [value |-> self.start >= other.value]
    ELSE [value |-> self.start >= other.value.end]

MaxCompareInstant == 4  \* instants of the compared slices are 0 .. this

CompareInstants == 0 .. MaxCompareInstant
CompareSlices ==
    { s \in [start : CompareInstants, end : CompareInstants] : s.start <= s.end }
CompareArgs ==
    [kind : {"datetime"}, value : CompareInstants]
        \cup [kind : {"slice"}, value : CompareSlices]

CompareInit ==
    /\ cself \in CompareSlices
    /\ cother \in CompareArgs
    /\ cresult = None
    /\ cpc = "call"

notCompare == <<sliceVars, iterVars, punchVars, lineVars, rebuilt, roundVars>>

\* cresult = cself.before(cother)
CallBefore ==
    /\ cpc = "call"
    /\ \E localized \in Localize(cself.end) :
          cresult' = Before(cself, cother, localized)
    /\ cpc' = "before"
    /\ UNCHANGED <<cself, cother>>
    /\ UNCHANGED notCompare

\* cresult = cself.after(cother)
CallAfter ==
    /\ cpc = "call"
    /\ cresult' = After(cself, cother)
    /\ cpc' = "after"
    /\ UNCHANGED <<cself, cother>>
    /\ UNCHANGED notCompare

CompareNext ==
    \/ CallBefore
    \/ CallAfter

(***************************************************************************)
(* The specifications: one per object under study.  The variables of the   *)
(* other objects are idle.                                                 *)
(***************************************************************************)
SliceIdle == start = 0 /\ end = 0 /\ raised = FALSE
IterIdle  == iself = None /\ interval = None /\ current = None
             /\ yielded = <<>> /\ ipc = "idle"
PunchIdle == ps = None /\ ph = None /\ parts = <<>> /\ ppc = "idle"
LineIdle  == time_slices = <<>> /\ reverse = FALSE
             /\ op = [name |-> "idle", arg |-> None] /\ pre = None /\ ret = None

RebuildIdle == rebuilt = None
RoundIdle == rduration = 0 /\ rstep = <<>> /\ rmode = <<>>
             /\ rresult = None /\ rpc = "idle"
CompareIdle == cself = None /\ cother = None /\ cresult = None /\ cpc = "idle"
RestIdle  == RebuildIdle /\ RoundIdle /\ CompareIdle

InitSlice == SliceInit /\ IterIdle /\ PunchIdle /\ LineIdle /\ RestIdle
InitIter  == IterInit /\ SliceIdle /\ PunchIdle /\ LineIdle /\ RestIdle
InitPunch == PunchInit /\ SliceIdle /\ IterIdle /\ LineIdle /\ RestIdle
InitLine  == LineInit /\ SliceIdle /\ IterIdle /\ PunchIdle /\ RestIdle

\* a TimeSlice under mutation
SpecSlice == InitSlice /\ [][SliceNext]_vars
\* a run of TimeSlice.iter
SpecIter  == InitIter /\ [][IterNext]_vars
\* a call of TimeSlice.punch_hole
SpecPunch == InitPunch /\ [][PunchNext]_vars
\* a TimeLine: append, sort, flatten, split
SpecLine  == InitLine /\ [][LineNext]_vars
\* a TimeLine: append, sort, crop
SpecCrop  == InitLine /\ [][CropNext]_vars

\* a TimeLine: append, sort, punch_hole
SpecHole  == InitLine /\ [][HoleNext]_vars

\* TimeSlice.punch_hole, then the pieces and the hole flattened
SpecRebuild == InitPunch /\ [][RebuildNext]_vars

InitRound == RoundInit /\ SliceIdle /\ IterIdle /\ PunchIdle /\ LineIdle
             /\ RebuildIdle /\ CompareIdle
\* a call of duration_to_rounded_unit_hours
SpecRound == InitRound /\ [][RoundNext]_vars

InitCompare == CompareInit /\ SliceIdle /\ IterIdle /\ PunchIdle /\ LineIdle
               /\ RebuildIdle /\ RoundIdle
\* a call of TimeSlice.before or TimeSlice.after
SpecCompare == InitCompare /\ [][CompareNext]_vars

(***************************************************************************)
(* The claims.                                                             *)
(***************************************************************************)
\* the instants of a slice's closed interval
InstantsOf(s) == s.start .. s.end

\* C1: in every reachable state of a TimeSlice, after a call that succeeded
\* or failed, the stored start is <= the stored end.
C1_StartNeverAfterEnd == start <= end

\* C2: once iter is exhausted, the sub-slices it yielded are consecutive,
\* do not overlap and cover [start, end], the last one ending at the slice's
\* end; [Jan 1 00:00, Jan 31 23:59:59.999999] by weeks yields 5 sub-slices.
C2_IterCoversSlice ==
    (ipc = "done" /\ iself.start < iself.end) =>
        /\ Len(yielded) >= 1
        /\ yielded[1].start = iself.start
        /\ \A i \in 1 .. Len(yielded) - 1 :
               yielded[i + 1].start = yielded[i].end + 1
        /\ yielded[Len(yielded)].end = iself.end
        /\ ( /\ iself.start = Combine(ToOrdinal(2021, 1, 1), TimeMin)
             /\ iself.end = Combine(ToOrdinal(2021, 1, 31), TimeMax)
             /\ interval = Weeks(1) ) => Len(yielded) = 5

\* C10: iterating by months a slice that starts on a day of the month after
\* the 28th, every sub-slice starts on day min(anchor day, days in that
\* month), the anchor day being the day of the month of the slice's start.
C10_MonthBoundariesOnAnchorDay ==
    ( /\ ipc # "idle"
      /\ interval.months > 0
      /\ DayOfMonth(DateOf(iself.start)) > 28 ) =>
        \A i \in DOMAIN yielded :
            LET n == DateOf(yielded[i].start)
            IN  DayOfMonth(n) =
                    Min(DayOfMonth(DateOf(iself.start)),
                        DaysInMonth(YearOf(n), MonthOf(n)))

\* what C7 says punch_hole returns
C7_Expected(s, h) ==
    IF InstantsOf(s) \subseteq InstantsOf(h) THEN <<>>
    ELSE IF InstantsOf(s) \cap InstantsOf(h) = {} THEN <<s>>
    ELSE (IF s.start < h.start /\ h.start <= s.end
          THEN << [start |-> s.start, end |-> h.start - 1] >> ELSE <<>>)
         \o
         (IF s.start <= h.end /\ h.end <= s.end
          THEN << [start |-> h.end, end |-> s.end] >> ELSE <<>>)

\* C7: s.punch_hole(h) is empty when s lies within h, a copy of s when the
\* two share no instant, and otherwise 1 or 2 pieces in order: the left
\* remainder [s.start, h.start - 1] exactly when s.start < h.start <= s.end,
\* then the right remainder [h.end, s.end] exactly when
\* s.start <= h.end <= s.end.
C7_PunchHolePieces ==
    ppc = "done" =>
        /\ parts = C7_Expected(ps, ph)
        /\ ( /\ ~(InstantsOf(ps) \subseteq InstantsOf(ph))
             /\ InstantsOf(ps) \cap InstantsOf(ph) # {} ) => Len(parts) \in {1, 2}

\* a hole strictly inside the slice has been punched: two pieces
C7_Witness ==
    /\ ppc = "done"
    /\ ps.start < ph.start
    /\ ph.end < ps.end
    /\ Len(parts) = 2

\* C8: every piece s.punch_hole(h) returns lies within s and holds no
\* instant of h's closed interval.
C8_PiecesAvoidHole ==
    ppc = "done" =>
        \A i \in DOMAIN parts :
            /\ InstantsOf(parts[i]) \subseteq InstantsOf(ps)
            /\ InstantsOf(parts[i]) \cap InstantsOf(ph) = {}

\* the instants covered by the slices of a list
Covered(seq) == UNION { InstantsOf(seq[i]) : i \in DOMAIN seq }

\* the list is sorted by (start, end), descending when rev
SortedBy(seq, rev) ==
    \A i, j \in DOMAIN seq :
        i < j => (IF rev THEN ~RangeLess(seq[i], seq[j])
                         ELSE ~RangeLess(seq[j], seq[i]))

\* how many members of the list equal x
Count(seq, x) == Cardinality({ i \in DOMAIN seq : seq[i] = x })

\* the two lists hold the same members, as often
SameMembers(a, b) ==
    \A x \in { a[i] : i \in DOMAIN a } \cup { b[i] : i \in DOMAIN b } :
        Count(a, x) = Count(b, x)

\* C3: after flatten the members are sorted by (start, end) in the
\* configured direction, no two members share an instant, and the instants
\* covered are those covered before the call.
C3_FlattenCanonical ==
    op.name = "flatten" =>
        /\ reverse = NewReverse(pre.reverse, op.arg)
        /\ SortedBy(time_slices, reverse)
        /\ \A i, j \in DOMAIN time_slices :
               i # j => InstantsOf(time_slices[i]) \cap InstantsOf(time_slices[j]) = {}
        /\ Covered(time_slices) = Covered(pre.time_slices)

\* two touching slices have been flattened into one
C3_Witness ==
    /\ op.name = "flatten"
    /\ Len(pre.time_slices) = 2
    /\ \E i, j \in DOMAIN pre.time_slices :
           /\ pre.time_slices[i].start < pre.time_slices[i].end
           /\ pre.time_slices[i].end = pre.time_slices[j].start
           /\ pre.time_slices[j].start < pre.time_slices[j].end
           /\ time_slices = << [start |-> pre.time_slices[i].start,
                                end   |-> pre.time_slices[j].end] >>

\* the outer extent of the non-empty list holds the instant
OuterHolds(seq, p) ==
    (\E i \in DOMAIN seq : seq[i].start <= p) /\ (\E i \in DOMAIN seq : p <= seq[i].end)

\* how often x is due on the left and on the right of a split of seq at p
DueLeft(seq, p, x) ==
    Cardinality({ i \in DOMAIN seq : seq[i].end < p /\ seq[i] = x })
    + Cardinality({ i \in DOMAIN seq :
          /\ seq[i].start < p /\ p <= seq[i].end
          /\ x = [start |-> seq[i].start, end |-> p - 1] })

DueRight(seq, p, x) ==
    Cardinality({ i \in DOMAIN seq : p < seq[i].start /\ seq[i] = x })
    + Cardinality({ i \in DOMAIN seq :
          /\ seq[i].start <= p /\ p <= seq[i].end
          /\ x = [start |-> p, end |-> seq[i].end] })

\* C9: on a non-empty timeline whose outer extent holds p, split(p) returns
\* [left, right]: every slice of left ends before p, every slice of right
\* starts at or after p, a member holding p gives its TimeSlice.split pieces
\* to the two sides, the other members are copied to their side, and the
\* timeline keeps its members; when the outer extent does not hold p it
\* returns a one-element list holding a copy of the timeline.
C9_SplitPartitions ==
    (op.name = "split" /\ pre.time_slices # <<>>) =>
        IF OuterHolds(pre.time_slices, op.arg)
        THEN /\ Len(ret) = 2
             /\ \A i \in DOMAIN ret[1].time_slices : ret[1].time_slices[i].end < op.arg
             /\ \A i \in DOMAIN ret[2].time_slices : op.arg <= ret[2].time_slices[i].start
             /\ \A x \in Slices :
                    /\ Count(ret[1].time_slices, x) = DueLeft(pre.time_slices, op.arg, x)
                    /\ Count(ret[2].time_slices, x) = DueRight(pre.time_slices, op.arg, x)
             /\ SameMembers(time_slices, pre.time_slices)
        ELSE /\ ret = << pre >>
             /\ time_slices = pre.time_slices

\* a timeline has been split at an instant inside one of its members, with
\* another member wholly on one side
C9_Witness ==
    /\ op.name = "split"
    /\ Len(pre.time_slices) = 2
    /\ Len(ret) = 2
    /\ \E i \in DOMAIN pre.time_slices :
           pre.time_slices[i].start < op.arg /\ op.arg <= pre.time_slices[i].end
    /\ \E i \in DOMAIN pre.time_slices : pre.time_slices[i].end < op.arg
    /\ Len(ret[1].time_slices) = 2
    /\ Len(ret[2].time_slices) = 1

\* the outer extent of the non-empty list shares an instant with the bound
OuterOverlaps(seq, bound) ==
    /\ \E i \in DOMAIN seq : seq[i].start <= bound.end
    /\ \E i \in DOMAIN seq : bound.start <= seq[i].end

\* the call was crop, on a non-empty timeline whose outer extent overlaps
\* the bound
CropApplies ==
    /\ op.name = "crop"
    /\ op.arg # None
    /\ pre.time_slices # <<>>
    /\ OuterOverlaps(pre.time_slices, op.arg)

IsTimeLine(x) == x # None /\ x # ValueError /\ x # AttributeError

\* C4: on a non-empty timeline whose outer extent overlaps the bound, crop
\* returns a timeline covering exactly the instants that some member covers
\* and that lie in [bound.start, bound.end], and the timeline keeps its
\* members.
C4_CropIsIntersection ==
    CropApplies =>
        /\ IsTimeLine(ret)
        /\ Covered(ret.time_slices) = Covered(pre.time_slices) \cap InstantsOf(op.arg)
        /\ SameMembers(time_slices, pre.time_slices)

\* C5: crop raises ValueError exactly when the timeline is empty or its
\* outer extent does not overlap the bound; on every other input it returns
\* a timeline.
C5_CropErrors ==
    op.name = "crop" =>
        IF CropApplies THEN IsTimeLine(ret) ELSE ret = ValueError

\* C6: on a non-empty flattened timeline, crop by a bound that holds the
\* whole outer extent returns a timeline with the same slices.
C6_CropByCoverIsIdentity ==
    ( /\ CropApplies
      /\ pre.time_slices = FlattenSlices(pre.time_slices, pre.reverse, <<>>)
      /\ \A i \in DOMAIN pre.time_slices :
             /\ op.arg.start <= pre.time_slices[i].start
             /\ pre.time_slices[i].end <= op.arg.end ) =>
        ret = pre


\* C11: with a step, 'standard' returns the multiple of the step nearest to
\* the unit-hours value, the higher one when the value lies halfway between
\* two multiples; 'floor' returns the greatest multiple <= the value and
\* 'ceiling' the least multiple >= the value.
C11_RoundsToNearestHalfUp ==
    (rpc = "done" /\ rstep # <<>> /\ rmode # <<>>) =>
        LET u == DurationToUnitHours(rduration)
            step == rstep[1]
        IN  /\ rmode[1] = ROUNDING_MODE_STANDARD =>
                /\ rresult.value % step = 0
                /\ 2 * (rresult.value - u) <= step
                /\ 2 * (u - rresult.value) < step
            /\ rmode[1] = ROUNDING_MODE_FLOOR =>
                /\ rresult.value % step = 0
                /\ rresult.value <= u /\ u < rresult.value + step
            /\ rmode[1] = ROUNDING_MODE_CEILING =>
                /\ rresult.value % step = 0
                /\ rresult.value - step < u /\ u <= rresult.value


\* h lies within s
Contains(s, h) == s.start <= h.start /\ h.end <= s.end

\* C12: for a hole ph contained in the slice ps, the pieces of
\* ps.punch_hole(ph) and ph itself, put into one timeline and flattened,
\* give a timeline whose outer_time_slice is ps.
C12_RebuildKeepsOuter ==
    (ppc = "rebuilt" /\ Contains(ps, ph)) =>
        OuterTimeSlice(rebuilt.time_slices) = ps

\* a hole strictly inside the slice: two pieces, and the hole between them
C12_Witness ==
    /\ ppc = "rebuilt"
    /\ ps.start < ph.start /\ ph.end < ps.end
    /\ Len(parts) = 2
    /\ OuterTimeSlice(rebuilt.time_slices) = ps

\* the members expected after punching hole out of the members of seq
RECURSIVE PunchedMembers(_, _)
PunchedMembers(seq, hole) ==
    IF seq = <<>> THEN <<>>
    ELSE (IF Overlaps(Head(seq), hole) THEN PunchHole(Head(seq), hole)
                                       ELSE <<Head(seq)>>)
         \o PunchedMembers(Tail(seq), hole)

\* C13: TimeLine.punch_hole(hole) replaces each member that overlaps the hole
\* by that member's punch_hole pieces and keeps every other member; the
\* reverse flag is what it was before the call and the members are sorted
\* by (start, end) in that direction.
C13_LinePunchHoleFrame ==
    op.name = "punch_hole" =>
        /\ SameMembers(time_slices, PunchedMembers(pre.time_slices, op.arg))
        /\ \A x \in { pre.time_slices[i] : i \in DOMAIN pre.time_slices } :
               ~Overlaps(x, op.arg) =>
                   Count(time_slices, x) >= Count(pre.time_slices, x)
        /\ reverse = pre.reverse
        /\ SortedBy(time_slices, reverse)

\* a descending timeline with a member the hole cuts in two and a member the
\* hole does not touch
C13_Witness ==
    /\ op.name = "punch_hole"
    /\ pre.reverse
    /\ \E i, j \in DOMAIN pre.time_slices :
           /\ pre.time_slices[i].start < op.arg.start
           /\ op.arg.end < pre.time_slices[i].end
           /\ ~Overlaps(pre.time_slices[j], op.arg)
           /\ Count(time_slices, pre.time_slices[j]) >= 1
    /\ Len(time_slices) = Len(pre.time_slices) + 1

\* C14: given an instant t, before(t) is true exactly when the slice's end
\* is <= t, and after(t) is true exactly when the slice's start is >= t; so
\* before(t) is false for t earlier than the slice's start.
C14_BeforeInstantMirrorsAfter ==
    cother.kind = "datetime" =>
        /\ cpc = "before" => cresult = [value |-> cself.end <= cother.value]
        /\ cpc = "after" => cresult = [value |-> cself.start >= cother.value]

=============================================================================
